---- MODULE Spec2Model ----
(***************************************************************************)
(* Model of src/src/utils/Dynamic.js: the Dynamic class (one axis moving   *)
(* toward a target, or rolling, with a speed ramp) and the MultiDynamic     *)
(* class (named Dynamic instances driven together).                        *)
(*                                                                         *)
(* Numbers: every input is an integer chosen so that each JavaScript       *)
(* double operation of update() is exact on it: elapsed is 0, 250 or 1000  *)
(* ms, speed is 0 (as constructed) and then 8, and speedMult is 0, 1 or 2, *)
(* so that currentSpeed is always a multiple of 4 and every product with   *)
(* elapsed/1000 is an integer (ExactArithmetic).  +Infinity and -Infinity  *)
(* are the sentinels Infinity and NegInfinity, larger in magnitude than    *)
(* every finite value of the model, with the arithmetic of IEEE infinities *)
(* written out where the code can meet them.                               *)
(***************************************************************************)
EXTENDS Integers, Sequences, FiniteSets, TLC

VARIABLES
  dyn,          \* the Dynamic instance: a record of its fields (fn: a callback is set)
  op,           \* the last control operation and its arguments
  tick,         \* the elapsed of every update since that operation: NoUpdate when
                \* there was none, Mixed when they differed
  changed,      \* what the last update returned
  calls,        \* the values passed to fn by the last operation, in order
  multi,        \* the MultiDynamic instance: fn (a callback is set), the keys of
                \* its dynamics in insertion order, and the dynamics by name
  mop,          \* the last operation on multi: its name, its argument, and
                \* whether it threw
  mres,         \* what the last update of multi returned, the snapshots it
                \* passed to fn, and what each dynamic's update returned
  hook          \* what the fn of the dynamics of multi do when called: <<>>
                \* nothing, <<from, to, value>> the fn of the dynamic named
                \* from calls setCurrent(value) on the dynamic named to

avars == <<dyn, op, tick, changed, calls>>
mvars == <<multi, mop, mres, hook>>
vars == <<dyn, op, tick, changed, calls, multi, mop, mres, hook>>

\* ------------------------------------------------------------ constants

STOP == 0
INFINITE == 1
POSITION == 2

Infinity == 1000000
NegInfinity == 0 - Infinity

MsPerSecond == 1000

\* bound on |current| and |target| of an axis without finite bounds
MaxPos == 12

\* ------------------------------------------------------------ inputs

Elapsed == {0, 250, 1000}
Speeds == {8}
Mults == {0, 1, 2}
Positions == {-11, 0, 9, 11}
Steps == {-3, 3}
\* new Dynamic(fn, min, max): with a callback and the default bounds, with a
\* callback and finite bounds, without a callback
Constructions ==
  {<<TRUE, NegInfinity, Infinity>>, <<TRUE, -10, 10>>, <<FALSE, -10, 10>>}

\* ------------------------------------------------------------ helpers

IsFinite(x) == x # Infinity /\ x # NegInfinity

MathMin(a, b) == IF a < b THEN a ELSE b
MathMax(a, b) == IF a > b THEN a ELSE b
MathAbs(a) == IF a < 0 THEN 0 - a ELSE a

\* a + b and a - b where a may be infinite and b is finite
Plus(a, b) == IF IsFinite(a) THEN a + b ELSE a
Minus(a, b) == IF IsFinite(a) THEN a - b ELSE a

\* x * elapsed / 1000
PerMs(x, e) == (x * e) \div MsPerSecond

bound(x, min, max) == MathMax(min, MathMin(max, x))

\* ------------------------------------------------------------ Dynamic

Dynamic(fn, min, max) ==
  [fn |-> fn, mode |-> STOP, speed |-> 0, speedMult |-> 1, currentSpeed |-> 0,
   target |-> 0, current |-> 0, min |-> min, max |-> max]

goto(d, position, speedMult) ==
  [d EXCEPT !.mode = POSITION,
            !.target = bound(position, d.min, d.max),
            !.speedMult = speedMult]

\* faulty variant: the step is always taken from the target
step_fromTarget(d, val, speedMult) == goto(d, Plus(d.target, val), speedMult)

step(d, val, speedMult) ==
  LET d1 == IF d.mode = INFINITE THEN [d EXCEPT !.target = d.current] ELSE d
  IN goto(d1, Plus(d1.target, val), speedMult)

roll(d, invert, speedMult) ==
  [d EXCEPT !.mode = INFINITE,
            !.target = IF invert THEN NegInfinity ELSE Infinity,
            !.speedMult = speedMult]

\* faulty variant: stop halts the axis at once
stop_halt(d) == [d EXCEPT !.mode = STOP, !.currentSpeed = 0]

stop(d) == [d EXCEPT !.mode = STOP]

\* faulty variant: the target is left where it was
setCurrent_keepTarget(d, current) ==
  [d EXCEPT !.current = current, !.mode = STOP]

setCurrent(d, current) ==
  [d EXCEPT !.current = current, !.target = current, !.mode = STOP]

\* Math.abs(target - current) < dstStop, dstStop = currentSpeed^2 / (speed * speedMult * 4),
\* cross-multiplied when the divisor is positive.  A zero divisor makes dstStop
\* +Infinity (currentSpeed # 0) or NaN (currentSpeed = 0, every comparison false);
\* a negative one makes it negative or -0; an infinite target makes the distance
\* +Infinity, which is less than nothing.
inDecelerationWindow(d) ==
  LET div == d.speed * d.speedMult * 4
      dist == MathAbs(Minus(d.target, d.current))
  IN IF ~IsFinite(d.target) THEN FALSE
     ELSE IF div = 0 THEN d.currentSpeed # 0
     ELSE IF div < 0 THEN FALSE
     ELSE dist * div < d.currentSpeed * d.currentSpeed

\* faulty variant: a stopped axis away from its target goes back to position mode
updateMode_resume(d) ==
  IF d.mode = POSITION /\ inDecelerationWindow(d)
  THEN [d EXCEPT !.mode = STOP]
  ELSE IF d.mode = STOP /\ d.currentSpeed = 0 /\ IsFinite(d.target) /\ d.current # d.target
  THEN [d EXCEPT !.mode = POSITION]
  ELSE d

\* update, lines 66-72: in position mode switch to stop mode in the window
updateMode(d) ==
  IF d.mode = POSITION /\ inDecelerationWindow(d)
  THEN [d EXCEPT !.mode = STOP]
  ELSE d

\* faulty variant: stop mode keeps the nominal speed
targetSpeed_neverZero(d) == d.speed * d.speedMult

\* faulty variant: only position mode has a speed
targetSpeed_positionOnly(d) == IF d.mode # POSITION THEN 0 ELSE d.speed * d.speedMult

targetSpeed(d) == IF d.mode = STOP THEN 0 ELSE d.speed * d.speedMult

\* faulty variant: the deceleration is not limited to the target speed
updateSpeed_noFloor(d, e) ==
  LET ts == targetSpeed(d)
      ramp == PerMs(d.speed * d.speedMult * 2, e)
  IN IF d.currentSpeed < ts
     THEN [d EXCEPT !.currentSpeed = MathMin(ts, d.currentSpeed + ramp)]
     ELSE IF d.currentSpeed > ts
     THEN [d EXCEPT !.currentSpeed = d.currentSpeed - ramp]
     ELSE d

\* faulty variant: currentSpeed takes the target speed at once
updateSpeed_jump(d, e) ==
  IF e > 0 THEN [d EXCEPT !.currentSpeed = targetSpeed(d)] ELSE d

\* update, lines 74-81: compute speed
updateSpeed(d, e) ==
  LET ts == targetSpeed(d)
      ramp == PerMs(d.speed * d.speedMult * 2, e)
  IN IF d.currentSpeed < ts
     THEN [d EXCEPT !.currentSpeed = MathMin(ts, d.currentSpeed + ramp)]
     ELSE IF d.currentSpeed > ts
     THEN [d EXCEPT !.currentSpeed = MathMax(ts, d.currentSpeed - ramp)]
     ELSE d

\* faulty variant: the move is not limited to the target
nextPosition_noClamp(d, e) ==
  IF d.current > d.target /\ d.currentSpeed # 0
  THEN <<d.current - PerMs(d.currentSpeed, e)>>
  ELSE IF d.current < d.target /\ d.currentSpeed # 0
  THEN <<d.current + PerMs(d.currentSpeed, e)>>
  ELSE <<>>

\* update, lines 83-90: compute new position; <<>> is null
nextPosition(d, e) ==
  IF d.current > d.target /\ d.currentSpeed # 0
  THEN <<MathMax(d.target, d.current - PerMs(d.currentSpeed, e))>>
  ELSE IF d.current < d.target /\ d.currentSpeed # 0
  THEN <<MathMin(d.target, d.current + PerMs(d.currentSpeed, e))>>
  ELSE <<>>

\* faulty variant: the new position is not bounded to [min, max]
applyValue_noBound(d, next) ==
  IF next # <<>> /\ next[1] # d.current
  THEN [d |-> [d EXCEPT !.current = next[1]], changed |-> TRUE,
        calls |-> IF d.fn THEN <<next[1]>> ELSE <<>>]
  ELSE [d |-> d, changed |-> FALSE, calls |-> <<>>]

\* faulty variant: every computed position is applied and notified, changed or not
applyValue_notifyAlways(d, next) ==
  IF next # <<>>
  THEN [d |-> [d EXCEPT !.current = bound(next[1], d.min, d.max)], changed |-> TRUE,
        calls |-> IF d.fn THEN <<bound(next[1], d.min, d.max)>> ELSE <<>>]
  ELSE [d |-> d, changed |-> FALSE, calls |-> <<>>]

\* faulty variant: the target follows the value that is applied
applyValue_retarget(d, next) ==
  LET b == bound(next[1], d.min, d.max)
  IN IF next # <<>> /\ b # d.current
     THEN [d |-> [d EXCEPT !.current = b, !.target = b], changed |-> TRUE,
           calls |-> IF d.fn THEN <<b>> ELSE <<>>]
     ELSE [d |-> d, changed |-> FALSE, calls |-> <<>>]

\* update, lines 92-104: apply value
applyValue(d, next) ==
  LET b == bound(next[1], d.min, d.max)
  IN IF next # <<>> /\ b # d.current
     THEN [d |-> [d EXCEPT !.current = b], changed |-> TRUE,
           calls |-> IF d.fn THEN <<b>> ELSE <<>>]
     ELSE [d |-> d, changed |-> FALSE, calls |-> <<>>]

\* faulty variant: the stop mode of the window is dropped when update returns
update_windowLocal(d, e) ==
  CHOOSE r \in { [d |-> [a.d EXCEPT !.mode = d.mode], changed |-> a.changed,
                   calls |-> a.calls] :
                   a \in { applyValue(d2, nextPosition(d2, e)) :
                     d2 \in { updateSpeed(d1, e) : d1 \in {updateMode(d)} } } } : TRUE

\* Each stage is bound as a value before the next one reads it.
update(d, e) ==
  CHOOSE r \in { applyValue(d2, nextPosition(d2, e)) :
                   d2 \in { updateSpeed(d1, e) : d1 \in {updateMode(d)} } } : TRUE

\* ------------------------------------------------------------ MultiDynamic

\* the names of the dynamics, and a name that is none of them
Axes == {"a", "b"}
Names == Axes \cup {"z"}

\* An object literal is the sequence of its <<key, value>> pairs in insertion
\* order.  The state of an iteration: the instance, whether the callback
\* threw, and the locals hasUpdates and values of update, with what each
\* dynamic's update returned.
Start(m) ==
  [m |-> m, thrown |-> FALSE, hasUpdates |-> 0,
   values |-> [n \in {} |-> 0], returned |-> [n \in {} |-> FALSE]]

\* a | b on the operands false/0 and true/1: hasUpdates starts as false, which
\* |= reads as 0, and is a number from the first iteration on
BitOr(a, b) == IF a = 1 \/ b = 1 THEN 1 ELSE 0

\* faulty variant: a name that is no dynamic is passed over
call_skipUnknown(acc, method, value, name, speedMult) ==
  IF name \notin DOMAIN acc.m.dynamics
  THEN acc
  ELSE [acc EXCEPT !.m.dynamics[name] =
          CASE method = "goto" -> goto(@, value, speedMult)
            [] method = "step" -> step(@, value, speedMult)
            [] method = "roll" -> roll(@, value, speedMult)
            [] method = "setCurrent" -> setCurrent(@, value)]

\* this.dynamics[name].goto(position, speedMult), and the same for step, roll
\* and setCurrent: this.dynamics[name] is undefined for a name that is no
\* dynamic, and the property access on it throws a TypeError
call(acc, method, value, name, speedMult) ==
  IF name \notin DOMAIN acc.m.dynamics
  THEN [acc EXCEPT !.thrown = TRUE]
  ELSE [acc EXCEPT !.m.dynamics[name] =
          CASE method = "goto" -> goto(@, value, speedMult)
            [] method = "step" -> step(@, value, speedMult)
            [] method = "roll" -> roll(@, value, speedMult)
            [] method = "setCurrent" -> setCurrent(@, value)]

\* this.fn(this.current) of a dynamic of the MultiDynamic (line 98), for the
\* values passed to it by one update: the caller's function, which may call
\* back into the dynamics
axisCallback(m, name, passed) ==
  IF passed = <<>> \/ hook = <<>>
  THEN m
  ELSE IF hook[1] # name
  THEN m
  ELSE [m EXCEPT !.dynamics[hook[2]] = setCurrent(@, hook[3])]

\* hasUpdates |= dynamic.update(elapsed); values[name] = dynamic.current
updateCallback(acc, name, elapsed) ==
  CHOOSE next \in
    { [acc EXCEPT !.m = after,
                  !.hasUpdates = BitOr(@, IF r.changed THEN 1 ELSE 0),
                  !.values = [n \in DOMAIN @ \cup {name} |->
                                IF n = name THEN after.dynamics[name].current ELSE @[n]],
                  !.returned = [n \in DOMAIN @ \cup {name} |->
                                  IF n = name THEN r.changed ELSE @[n]]] :
        r \in {update(acc.m.dynamics[name], elapsed)},
        after \in { axisCallback([acc.m EXCEPT !.dynamics[name] = r2.d], name, r2.calls) :
                      r2 \in {update(acc.m.dynamics[name], elapsed)} } } : TRUE

\* the callback each method passes to each
callback(acc, method, value, name, arg) ==
  CASE method = "speed" -> [acc EXCEPT !.m.dynamics[name].speed = arg]
    [] method = "stop" -> [acc EXCEPT !.m.dynamics[name] = stop(@)]
    [] method = "update" -> updateCallback(acc, name, arg)
    [] OTHER -> call(acc, method, value, name, arg)

\* each(object, callback): callback(value, key) for every key of the object,
\* in insertion order; an exception of the callback ends the iteration
each(object, acc, method, arg) ==
  LET run[i \in 0..Len(object)] ==
        IF i = 0 THEN acc
        ELSE CHOOSE next \in
               { IF before.thrown THEN before
                 ELSE callback(before, method, object[i][2], object[i][1], arg) :
                   before \in {run[i - 1]} } : TRUE
  IN run[Len(object)]

\* this.dynamics as each sees it: a dynamic is referred to by its name
dynamicsOf(m) == [i \in 1..Len(m.keys) |-> <<m.keys[i], m.keys[i]>>]

MultiDynamic(keys, dynamics, fn) == [fn |-> fn, keys |-> keys, dynamics |-> dynamics]

MultiDynamic_speed(m, speed) == each(dynamicsOf(m), Start(m), "speed", speed)

MultiDynamic_goto(m, positions, speedMult) == each(positions, Start(m), "goto", speedMult)

MultiDynamic_step(m, steps, speedMult) == each(steps, Start(m), "step", speedMult)

MultiDynamic_roll(m, rolls, speedMult) == each(rolls, Start(m), "roll", speedMult)

\* faulty variant: only the first dynamic is stopped
MultiDynamic_stop_first(m) == each(SubSeq(dynamicsOf(m), 1, 1), Start(m), "stop", 0)

MultiDynamic_stop(m) == each(dynamicsOf(m), Start(m), "stop", 0)

MultiDynamic_setCurrent(m, currents) == each(currents, Start(m), "setCurrent", 1)

\* faulty variant: the snapshot holds only the dynamics that changed
MultiDynamic_update_changedOnly(m, elapsed) ==
  LET acc == each(dynamicsOf(m), Start(m), "update", elapsed)
      moved == {n \in DOMAIN acc.values : acc.returned[n]}
  IN [m |-> acc.m, hasUpdates |-> acc.hasUpdates, returned |-> acc.returned,
      calls |-> IF acc.hasUpdates # 0 /\ m.fn
                THEN << [n \in moved |-> acc.values[n]] >> ELSE <<>>]

\* faulty variant: the dynamics after the first that changed are not updated
MultiDynamic_update_shortCircuit(m, elapsed) ==
  LET first == each(SubSeq(dynamicsOf(m), 1, 1), Start(m), "update", elapsed)
      acc == IF first.hasUpdates # 0
             THEN [first EXCEPT !.values = [n \in DOMAIN m.dynamics |-> m.dynamics[n].current]
                                            @@ first.values,
                                !.returned = first.returned
                                             @@ [n \in DOMAIN m.dynamics |-> FALSE]]
             ELSE each(dynamicsOf(m), Start(m), "update", elapsed)
  IN [m |-> acc.m, hasUpdates |-> acc.hasUpdates, returned |-> acc.returned,
      calls |-> IF acc.hasUpdates # 0 /\ m.fn THEN <<acc.values>> ELSE <<>>]

\* if (hasUpdates && this.fn) this.fn(values); return hasUpdates
MultiDynamic_update(m, elapsed) ==
  LET acc == each(dynamicsOf(m), Start(m), "update", elapsed)
  IN [m |-> acc.m, hasUpdates |-> acc.hasUpdates, returned |-> acc.returned,
      calls |-> IF acc.hasUpdates # 0 /\ m.fn THEN <<acc.values>> ELSE <<>>]

\* ------------------------------------------------------------ state machine

NoUpdate == 0 - 1
Mixed == 0 - 2

Control(name, val, mult) == [name |-> name, val |-> val, mult |-> mult]

\* an axis without finite bounds stays within MaxPos
Capped(d) ==
  /\ MathAbs(d.current) <= MaxPos
  /\ IsFinite(d.target) => MathAbs(d.target) <= MaxPos

AfterControl(name, val, mult) ==
  /\ op' = Control(name, val, mult)
  /\ tick' = NoUpdate
  /\ changed' = FALSE
  /\ calls' = <<>>
  /\ UNCHANGED mvars

\* two dynamics without callbacks, as the viewer builds them
TwoAxes == [n \in Axes |-> Dynamic(FALSE, -10, 10)]

NoOperation == [name |-> "new", mapping |-> <<>>, mult |-> 1, thrown |-> FALSE]
NoResult == [ret |-> 0, calls |-> <<>>, returned |-> [n \in Axes |-> FALSE]]

Init ==
  /\ \E c \in Constructions : dyn = Dynamic(c[1], c[2], c[3])
  /\ op = Control("new", 0, 1)
  /\ tick = NoUpdate
  /\ changed = FALSE
  /\ calls = <<>>
  /\ multi = MultiDynamic(<<"a", "b">>, TwoAxes, TRUE)
  /\ mop = NoOperation
  /\ mres = NoResult
  /\ hook = <<>>

Goto(position, speedMult) ==
  /\ Capped(goto(dyn, position, speedMult))
  /\ dyn' = goto(dyn, position, speedMult)
  /\ AfterControl("goto", position, speedMult)

Step(val, speedMult) ==
  /\ Capped(step(dyn, val, speedMult))
  /\ dyn' = step(dyn, val, speedMult)
  /\ AfterControl("step", val, speedMult)

Roll(invert, speedMult) ==
  /\ dyn' = roll(dyn, invert, speedMult)
  /\ AfterControl("roll", IF invert THEN 1 ELSE 0, speedMult)

Stop ==
  /\ dyn' = stop(dyn)
  /\ AfterControl("stop", 0, dyn.speedMult)

SetCurrent(current) ==
  /\ Capped(setCurrent(dyn, current))
  /\ dyn' = setCurrent(dyn, current)
  /\ AfterControl("setCurrent", current, dyn.speedMult)

\* d.speed = speed, as the speed setter of MultiDynamic assigns it
SetSpeed(speed) ==
  /\ speed # dyn.speed
  /\ dyn' = [dyn EXCEPT !.speed = speed]
  /\ AfterControl("speed", speed, dyn.speedMult)

Update(e) ==
  \E r \in {update(dyn, e)} :
     /\ Capped(r.d)
     /\ dyn' = r.d
     /\ changed' = r.changed
     /\ calls' = r.calls
     /\ tick' = IF tick \in {NoUpdate, e} THEN e ELSE Mixed
     /\ UNCHANGED <<op, mvars>>

Next ==
  \/ \E position \in Positions, speedMult \in Mults : Goto(position, speedMult)
  \/ \E val \in Steps, speedMult \in Mults : Step(val, speedMult)
  \/ \E invert \in BOOLEAN, speedMult \in Mults : Roll(invert, speedMult)
  \/ Stop
  \/ \E current \in Positions : SetCurrent(current)
  \/ \E speed \in Speeds : SetSpeed(speed)
  \/ \E e \in Elapsed : Update(e)

Spec == Init /\ [][Next]_vars

\* ------------------------------------------------------------ MultiDynamic, driven

\* Inputs that keep two dynamics on a coarse grid: with speed 8 and an elapsed
\* of 1000 ms a dynamic moves 8 per update and ramps its speed in one update.
MultiPositions == {8}
MultiSteps == {8}
MultiRolls == {FALSE}
MultiMults == {1}
MultiSpeeds == {8}
MultiElapsed == {0, 1000}

\* the object literals of at most two distinct names with values in V
Mappings(V) ==
  {<<>>} \cup { <<p>> : p \in Names \X V }
         \cup { pq \in (Names \X V) \X (Names \X V) : pq[1][1] # pq[2][1] }

MultiAfter(name, mapping, mult, thrown) ==
  /\ mop' = [name |-> name, mapping |-> mapping, mult |-> mult, thrown |-> thrown]
  /\ mres' = NoResult
  /\ UNCHANGED <<avars, hook>>

MultiInit ==
  /\ dyn = Dynamic(FALSE, -10, 10)
  /\ op = Control("new", 0, 1)
  /\ tick = NoUpdate
  /\ changed = FALSE
  /\ calls = <<>>
  /\ \E fn \in BOOLEAN : multi = MultiDynamic(<<"a", "b">>, TwoAxes, fn)
  /\ mop = NoOperation
  /\ mres = NoResult
  /\ hook = <<>>

MultiSetSpeed(speed) ==
  /\ \E n \in Axes : multi.dynamics[n].speed # speed
  /\ \E acc \in {MultiDynamic_speed(multi, speed)} :
        multi' = acc.m /\ MultiAfter("speed", <<>>, 1, acc.thrown)

MultiGoto(positions, speedMult) ==
  \E acc \in {MultiDynamic_goto(multi, positions, speedMult)} :
     multi' = acc.m /\ MultiAfter("goto", positions, speedMult, acc.thrown)

MultiStep(steps, speedMult) ==
  \E acc \in {MultiDynamic_step(multi, steps, speedMult)} :
     multi' = acc.m /\ MultiAfter("step", steps, speedMult, acc.thrown)

MultiRoll(rolls, speedMult) ==
  \E acc \in {MultiDynamic_roll(multi, rolls, speedMult)} :
     multi' = acc.m /\ MultiAfter("roll", rolls, speedMult, acc.thrown)

MultiStop ==
  \E acc \in {MultiDynamic_stop(multi)} :
     multi' = acc.m /\ MultiAfter("stop", <<>>, 1, acc.thrown)

MultiSetCurrent(currents) ==
  \E acc \in {MultiDynamic_setCurrent(multi, currents)} :
     multi' = acc.m /\ MultiAfter("setCurrent", currents, 1, acc.thrown)

MultiUpdate(elapsed) ==
  \E r \in {MultiDynamic_update(multi, elapsed)} :
     /\ multi' = r.m
     /\ mop' = [name |-> "update", mapping |-> <<>>, mult |-> 1, thrown |-> FALSE]
     /\ mres' = [ret |-> r.hasUpdates, calls |-> r.calls, returned |-> r.returned]
     /\ UNCHANGED <<avars, hook>>

MultiNext ==
  \/ \E speed \in MultiSpeeds : MultiSetSpeed(speed)
  \/ \E positions \in Mappings(MultiPositions), speedMult \in MultiMults :
        MultiGoto(positions, speedMult)
  \/ \E steps \in Mappings(MultiSteps), speedMult \in MultiMults :
        MultiStep(steps, speedMult)
  \/ \E rolls \in Mappings(MultiRolls), speedMult \in MultiMults :
        MultiRoll(rolls, speedMult)
  \/ MultiStop
  \/ \E currents \in Mappings(MultiPositions) : MultiSetCurrent(currents)
  \/ \E elapsed \in MultiElapsed : MultiUpdate(elapsed)

MultiSpec == MultiInit /\ [][MultiNext]_vars

\* ------------------------------------------------------------ MultiDynamic, re-entered

\* two dynamics with a callback, and what that callback does
CallingAxes == [n \in Axes |-> Dynamic(TRUE, -10, 10)]
Hooks == {<<>>, <<"a", "b", 0>>, <<"b", "a", 0>>}

ReentrantInit ==
  /\ dyn = Dynamic(FALSE, -10, 10)
  /\ op = Control("new", 0, 1)
  /\ tick = NoUpdate
  /\ changed = FALSE
  /\ calls = <<>>
  /\ multi = MultiDynamic(<<"a", "b">>, CallingAxes, TRUE)
  /\ mop = NoOperation
  /\ mres = NoResult
  /\ hook \in Hooks

\* the speed setter, goto, roll, stop and update of a MultiDynamic whose
\* dynamics call back
ReentrantNext ==
  \/ \E speed \in MultiSpeeds : MultiSetSpeed(speed)
  \/ \E positions \in Mappings(MultiPositions), speedMult \in MultiMults :
        MultiGoto(positions, speedMult)
  \/ \E rolls \in Mappings(MultiRolls), speedMult \in MultiMults :
        MultiRoll(rolls, speedMult)
  \/ MultiStop
  \/ \E elapsed \in MultiElapsed : MultiUpdate(elapsed)

ReentrantSpec == ReentrantInit /\ [][ReentrantNext]_vars

\* every division by 1000 of the model is exact on the reachable states
ExactArithmetic ==
  /\ dyn.currentSpeed % 4 = 0
  /\ dyn.speed * dyn.speedMult * 2 % 4 = 0

\* ------------------------------------------------------------ shared predicates

Sm(d) == d.speed * d.speedMult

InRange(d, x) == d.min <= x /\ x <= d.max

\* an update of any elapsed changes nothing any more
AtRest(d) == \A e \in Elapsed : update(d, e).d = d

\* this step is an update of a positive elapsed
PositiveUpdate == \E e \in Elapsed : e > 0 /\ Update(e)

\* this step is an update: the control operations reset tick, update sets it
AnyUpdate == tick' # NoUpdate

\* ------------------------------------------------------------ C1

\* C1 (Convergence): with speed * speedMult > 0, after goto to a position inside
\* [min, max] and updates of one constant positive elapsed only, the axis does
\* not come to rest short of the target: once at rest, current = target.
C1_Convergence ==
  ( /\ op.name = "goto"
    /\ InRange(dyn, op.val)
    /\ Sm(dyn) > 0
    /\ tick \in Elapsed /\ tick > 0
    /\ AtRest(dyn) )
  => dyn.current = dyn.target

\* ------------------------------------------------------------ C2

\* C2 (No overshoot): after goto, every update of a positive elapsed keeps
\* current on its side of the target: from below current does not decrease and
\* stays <= target, from above it does not increase and stays >= target.
C2_NoOvershoot ==
  [][ (op.name = "goto" /\ PositiveUpdate) =>
        /\ dyn.current <= dyn.target =>
             (dyn.current <= dyn'.current /\ dyn'.current <= dyn.target)
        /\ dyn.current >= dyn.target =>
             (dyn.current >= dyn'.current /\ dyn'.current >= dyn.target) ]_vars

\* the last step to the target was cut short by the clamp, at full speed
C2_Witness ==
  /\ op.name = "goto"
  /\ tick \in Elapsed /\ tick > 0
  /\ changed
  /\ dyn.mode = POSITION
  /\ dyn.currentSpeed = Sm(dyn) /\ dyn.currentSpeed > 0
  /\ dyn.current = dyn.target

\* ------------------------------------------------------------ C3

\* C3 (Invariant on current): min <= current <= max after construction and
\* after every sequence of operations; setCurrent clamps its value.
C3_CurrentInBounds == InRange(dyn, dyn.current)

\* ------------------------------------------------------------ C4

\* C4 (Invariant on target): outside Rolling mode min <= target <= max, and the
\* infinite direction sentinel of roll is not left in target.
C4_TargetInBounds ==
  dyn.mode # INFINITE => (InRange(dyn, dyn.target) /\ IsFinite(dyn.target))

\* ------------------------------------------------------------ C5

\* C5 (Bound clamping of goto): goto(value, m) sets mode = POSITION,
\* speedMult = m and target = value clamped to [min, max], and during the
\* updates that follow current is never above max nor below min.
C5_GotoClamps ==
  op.name = "goto" =>
    /\ dyn.speedMult = op.mult
    /\ dyn.target = bound(op.val, dyn.min, dyn.max)
    /\ op.val > dyn.max => dyn.target = dyn.max
    /\ op.val < dyn.min => dyn.target = dyn.min
    /\ tick = NoUpdate => dyn.mode = POSITION
    /\ tick # NoUpdate => InRange(dyn, dyn.current)

\* ------------------------------------------------------------ C6

RollingUp(d) == d.mode = INFINITE /\ d.target = Infinity /\ Sm(d) > 0
RollingDown(d) == d.mode = INFINITE /\ d.target = NegInfinity /\ Sm(d) > 0

\* C6 (Rolling never converges): rolling up with max = +Infinity, every update
\* of a positive elapsed returns true and strictly increases current (rolling
\* down with min = -Infinity: strictly decreases it), the mode stays INFINITE,
\* and currentSpeed moves to speed * speedMult without passing it and stays there.
C6_RollingNeverConverges ==
  [][ ((RollingUp(dyn) \/ RollingDown(dyn)) /\ PositiveUpdate) =>
        /\ (RollingUp(dyn) /\ dyn.max = Infinity) =>
             (changed' /\ dyn'.current > dyn.current)
        /\ (RollingDown(dyn) /\ dyn.min = NegInfinity) =>
             (changed' /\ dyn'.current < dyn.current)
        /\ dyn'.mode = INFINITE
        /\ dyn.currentSpeed < Sm(dyn) =>
             (dyn.currentSpeed < dyn'.currentSpeed /\ dyn'.currentSpeed <= Sm(dyn))
        /\ dyn.currentSpeed = Sm(dyn) => dyn'.currentSpeed = Sm(dyn)
        /\ dyn.currentSpeed > Sm(dyn) =>
             (dyn.currentSpeed > dyn'.currentSpeed /\ dyn'.currentSpeed >= Sm(dyn)) ]_vars

\* rolling up without an upper bound, at full speed after several updates
C6_Witness ==
  /\ op.name = "roll" /\ op.val = 0
  /\ dyn.max = Infinity
  /\ RollingUp(dyn)
  /\ tick \in Elapsed /\ tick > 0
  /\ changed
  /\ dyn.currentSpeed = Sm(dyn)
  /\ dyn.current >= 10

\* ------------------------------------------------------------ C7

\* The axis rolled and driven, with no operation that ends a roll other than
\* setCurrent: the operations are the speed setter, roll, setCurrent and update.
\* The driver is fair: the animation loop keeps calling update with a positive
\* elapsed.
RollNext ==
  \/ \E invert \in BOOLEAN, speedMult \in Mults : Roll(invert, speedMult)
  \/ \E current \in Positions : SetCurrent(current)
  \/ \E speed \in Speeds : SetSpeed(speed)
  \/ \E e \in Elapsed : Update(e)

RollSpec == Init /\ [][RollNext]_vars /\ WF_vars(PositiveUpdate)

\* C7 (Roll clamps at bound): rolling up with a finite max, the updates bring
\* current to exactly max (unless a control operation ends the roll first), and
\* an update at max returns false and calls no callback; rolling down with a
\* finite min likewise.
C7_RollClampsAtBound ==
  /\ (RollingUp(dyn) /\ IsFinite(dyn.max))
       ~> (dyn.current = dyn.max \/ ~RollingUp(dyn))
  /\ (RollingDown(dyn) /\ IsFinite(dyn.min))
       ~> (dyn.current = dyn.min \/ ~RollingDown(dyn))
  /\ [][ (AnyUpdate /\ RollingUp(dyn) /\ dyn.current = dyn.max) =>
           (~changed' /\ calls' = <<>> /\ dyn'.current = dyn.max) ]_vars
  /\ [][ (AnyUpdate /\ RollingDown(dyn) /\ dyn.current = dyn.min) =>
           (~changed' /\ calls' = <<>> /\ dyn'.current = dyn.min) ]_vars

\* rolling up, stopped by the bound: the last update at max returned false
C7_Witness ==
  /\ op.name = "roll" /\ op.val = 0
  /\ RollingUp(dyn) /\ IsFinite(dyn.max)
  /\ dyn.current = dyn.max
  /\ dyn.currentSpeed = Sm(dyn)
  /\ tick \in Elapsed /\ tick > 0
  /\ ~changed

\* ------------------------------------------------------------ C8

\* C8 (Snap semantics): setCurrent(v) with v in [min, max] leaves
\* current = target = v and mode = STOP, and the update right after it returns
\* false and leaves current = v.
C8_SnapSemantics ==
  /\ [] ( (op.name = "setCurrent" /\ tick = NoUpdate /\ InRange(dyn, op.val)) =>
            (dyn.current = op.val /\ dyn.target = op.val /\ dyn.mode = STOP) )
  /\ [][ (op.name = "setCurrent" /\ tick = NoUpdate /\ InRange(dyn, op.val)
          /\ AnyUpdate) =>
           (~changed' /\ dyn'.current = op.val) ]_vars

\* an update has run right after a snap made at speed
C8_Witness ==
  /\ op.name = "setCurrent" /\ InRange(dyn, op.val)
  /\ tick \in Elapsed /\ tick > 0
  /\ dyn.currentSpeed > 0
  /\ ~changed /\ dyn.current = op.val

\* ------------------------------------------------------------ C9

\* C9 (setCurrent resets the speed): right after setCurrent, currentSpeed = 0.
C9_SetCurrentResetsSpeed ==
  (op.name = "setCurrent" /\ tick = NoUpdate) => dyn.currentSpeed = 0

\* ------------------------------------------------------------ C10

\* C10 (Change notification): an update returns true exactly when it changed
\* current, and exactly then it calls fn once, with the new current (an axis
\* without fn calls nothing); the control operations call nothing.
C10_ChangeNotification ==
  [][ /\ AnyUpdate =>
           /\ changed' <=> (dyn'.current # dyn.current)
           /\ calls' = IF changed' /\ dyn.fn THEN <<dyn'.current>> ELSE <<>>
      /\ tick' = NoUpdate => calls' = <<>> ]_vars

\* an update moved the axis and notified the new value
C10_Witness ==
  /\ tick # NoUpdate
  /\ changed
  /\ dyn.fn
  /\ calls = <<dyn.current>>

\* ------------------------------------------------------------ C11

\* the current value of every dynamic
Snapshot(m) == [n \in Axes |-> m.dynamics[n].current]

\* C11 (Composite aggregation): the update of the MultiDynamic returns a truthy
\* value exactly when the update of at least one dynamic returned true; fn is
\* then called once, with the current value of every dynamic, and is not
\* called otherwise.
C11_CompositeAggregation ==
  mop.name = "update" =>
    /\ mres.ret # 0 <=> \E n \in Axes : mres.returned[n]
    /\ mres.calls = IF mres.ret # 0 /\ multi.fn THEN <<Snapshot(multi)>> ELSE <<>>

\* one dynamic moved, the other stayed where an earlier move left it
C11_Witness ==
  /\ mop.name = "update"
  /\ multi.fn
  /\ mres.returned["a"] /\ ~mres.returned["b"]
  /\ multi.dynamics["b"].current # 0
  /\ mres.calls = <<Snapshot(multi)>>

\* ------------------------------------------------------------ C16

FanOut == {"goto", "step", "roll", "setCurrent"}

\* the names of a mapping
Named(mapping) == { mapping[i][1] : i \in DOMAIN mapping }

\* C16 (Invalid axis is reported): a goto, step, roll or setCurrent of the
\* MultiDynamic whose mapping holds a name that is no dynamic throws.
C16_InvalidAxisReported ==
  (mop.name \in FanOut /\ ~(Named(mop.mapping) \subseteq Axes)) => mop.thrown

\* a roll that names a dynamic and then a name that is none
C16_Witness ==
  /\ mop.name = "roll"
  /\ Len(mop.mapping) = 2
  /\ mop.mapping[1][1] = "b" /\ mop.mapping[2][1] = "z"
  /\ mop.thrown

\* ------------------------------------------------------------ C17

\* C17 (Atomic rejection): an operation of the MultiDynamic that throws leaves
\* every dynamic as it was.
C17_AtomicRejection ==
  [][ mop'.thrown => multi' = multi ]_vars

\* ------------------------------------------------------------ C18

\* the value a mapping gives to a name
ValueOf(mapping, n) == mapping[CHOOSE i \in DOMAIN mapping : mapping[i][1] = n][2]

\* the operation of one dynamic that a fan-out method stands for
Applied(method, d, value, speedMult) ==
  CASE method = "goto" -> goto(d, value, speedMult)
    [] method = "step" -> step(d, value, speedMult)
    [] method = "roll" -> roll(d, value, speedMult)
    [] method = "setCurrent" -> setCurrent(d, value)

\* C18 (Sparse fan-out): a goto, step, roll or setCurrent of the MultiDynamic
\* that returns has applied that operation to each dynamic its mapping names,
\* and whether it returns or throws it leaves every other dynamic as it was;
\* stop applies stop to every dynamic, so that each is in STOP mode.
C18_SparseFanOut ==
  [][ /\ (mop'.name \in FanOut /\ ~mop'.thrown) =>
           \A n \in Axes \cap Named(mop'.mapping) :
              multi'.dynamics[n] =
                Applied(mop'.name, multi.dynamics[n], ValueOf(mop'.mapping, n), mop'.mult)
      /\ mop'.name \in FanOut =>
           \A n \in Axes \ Named(mop'.mapping) : multi'.dynamics[n] = multi.dynamics[n]
      /\ mop'.name = "stop" =>
           \A n \in Axes : /\ multi'.dynamics[n].mode = STOP
                           /\ multi'.dynamics[n] = stop(multi.dynamics[n]) ]_vars

\* a goto of b alone while a rolls at speed; and a stop of both
C18_Witness ==
  /\ mop.name = "goto" /\ ~mop.thrown
  /\ Named(mop.mapping) = {"b"}
  /\ multi.dynamics["a"].mode = INFINITE /\ multi.dynamics["a"].currentSpeed > 0
  /\ multi.dynamics["b"].mode = POSITION /\ multi.dynamics["b"].target = 8

\* ------------------------------------------------------------ C12

\* this step is a control operation (goto, step, roll, stop, setCurrent, speed)
AnyControl == tick' = NoUpdate

\* C12 (Step semantics): step(delta, m) in INFINITE mode gives the state of
\* goto(current + delta, m), in STOP or POSITION mode the state of
\* goto(target + delta, m), with current and target as they were at the call.
C12_StepSemantics ==
  [][ (AnyControl /\ op'.name = "step") =>
        dyn' = IF dyn.mode = INFINITE
               THEN goto(dyn, dyn.current + op'.val, op'.mult)
               ELSE goto(dyn, Plus(dyn.target, op'.val), op'.mult) ]_vars

\* a step taken while rolling at full speed, away from the origin: the target
\* is current + delta
C12_Witness ==
  /\ op.name = "step" /\ tick = NoUpdate
  /\ dyn.max = Infinity
  /\ dyn.mode = POSITION
  /\ dyn.currentSpeed > 0
  /\ dyn.current >= 8
  /\ dyn.target = dyn.current + op.val

\* ------------------------------------------------------------ C13

\* C13 (Frame of the control operations): goto, step, roll and stop leave
\* current and currentSpeed unchanged, stop changes only mode, and current is
\* changed only by update and by setCurrent.
C13_ControlFrame ==
  [][ /\ (AnyControl /\ op'.name \in {"goto", "step", "roll", "stop"}) =>
           (dyn'.current = dyn.current /\ dyn'.currentSpeed = dyn.currentSpeed)
      /\ (AnyControl /\ op'.name = "stop") => dyn' = [dyn EXCEPT !.mode = STOP]
      /\ dyn'.current # dyn.current =>
           (AnyUpdate \/ op'.name = "setCurrent") ]_vars

\* stop called on an axis rolling at speed: the speed is still there
C13_Witness ==
  /\ op.name = "stop" /\ tick = NoUpdate
  /\ dyn.mode = STOP
  /\ dyn.currentSpeed > 0
  /\ ~IsFinite(dyn.target)
  /\ dyn.current # 0

\* ------------------------------------------------------------ C14

\* The axis sent to a position, rolled, stopped and driven: the operations are
\* the speed setter, goto, roll, stop and update.  The driver is fair: the
\* animation loop keeps calling update with a positive elapsed.
RestNext ==
  \/ \E position \in Positions, speedMult \in Mults : Goto(position, speedMult)
  \/ \E invert \in BOOLEAN, speedMult \in Mults : Roll(invert, speedMult)
  \/ Stop
  \/ \E speed \in Speeds : SetSpeed(speed)
  \/ \E e \in Elapsed : Update(e)

RestSpec == Init /\ [][RestNext]_vars /\ WF_vars(PositiveUpdate)

\* an update of a positive elapsed keeps the axis within MaxPos
Drivable(d) == \E e \in Elapsed : e > 0 /\ Capped(update(d, e).d)

Stopped(d) == d.mode = STOP /\ d.currentSpeed = 0

\* updates have run since a stop or a goto, with a usable speed
Braking(d, o, t) == o.name \in {"stop", "goto"} /\ Sm(d) > 0 /\ t # NoUpdate

\* C14 (Coming to rest): with speed * speedMult > 0, the updates that follow a
\* stop or a goto bring the axis to mode STOP with currentSpeed = 0 (unless
\* another control operation comes first), and an update of an axis in STOP
\* mode with currentSpeed = 0 returns false and leaves it so.
C14_ComingToRest ==
  /\ Braking(dyn, op, tick) ~> (Stopped(dyn) \/ tick = NoUpdate \/ ~Drivable(dyn))
  /\ [][ (AnyUpdate /\ Stopped(dyn)) =>
           (~changed' /\ dyn'.mode = STOP /\ dyn'.currentSpeed = 0) ]_vars

\* at rest after a stop that interrupted a roll at speed, away from the origin
C14_Witness ==
  /\ op.name = "stop"
  /\ tick \in Elapsed /\ tick > 0
  /\ Sm(dyn) > 0
  /\ Stopped(dyn)
  /\ ~IsFinite(dyn.target)
  /\ dyn.current # 0
  /\ ~changed

\* ------------------------------------------------------------ C15

\* C15 (Degenerate speed): with speed * speedMult = 0, an update in POSITION
\* mode with current # target sets mode STOP and does not move current, and no
\* later update after that goto moves it either.
C15_DegenerateSpeed ==
  [][ (AnyUpdate /\ Sm(dyn) = 0) =>
        /\ (dyn.mode = POSITION /\ dyn.current # dyn.target) =>
             (dyn'.mode = STOP /\ dyn'.current = dyn.current)
        /\ (op.name = "goto" /\ tick # NoUpdate) => dyn'.current = dyn.current ]_vars

\* ------------------------------------------------------------ C19

\* C19 (Speed invariant): currentSpeed >= 0 in every reachable state (elapsed,
\* speed and speedMult are never negative).
C19_SpeedNonNegative == dyn.currentSpeed >= 0

\* the speed came down to 0 in a deceleration that the ramp would have passed
C19_Witness ==
  /\ tick = 1000
  /\ dyn.mode = STOP
  /\ Sm(dyn) > 0
  /\ dyn.currentSpeed = 0
  /\ dyn.current # dyn.target

\* ------------------------------------------------------------ C20

\* the window test of update, for a positive speed * speedMult and a finite
\* target: |target - current| < currentSpeed^2 / (4 * speed * speedMult)
InWindow(d) ==
  /\ Sm(d) > 0
  /\ IsFinite(d.target)
  /\ MathAbs(d.target - d.current) * 4 * Sm(d) < d.currentSpeed * d.currentSpeed

\* C20 (Deceleration window is per-step), as claimed: after an update in
\* POSITION mode inside the window the axis is still in POSITION mode.
C20_WindowPerStep ==
  [][ (AnyUpdate /\ dyn.mode = POSITION /\ InWindow(dyn)) =>
        dyn'.mode = POSITION ]_vars

\* C20 amended: an update in POSITION mode inside the window stores mode STOP,
\* and no update leaves STOP mode: the axis stays stopped until the next goto,
\* step or roll.
C20_WindowStops ==
  [][ /\ (AnyUpdate /\ dyn.mode = POSITION /\ InWindow(dyn)) => dyn'.mode = STOP
      /\ (AnyUpdate /\ dyn.mode = STOP) => dyn'.mode = STOP ]_vars

\* a second update after the one that entered the window: still stopped, short
\* of the target, decelerating
C20_Witness ==
  /\ op.name = "goto"
  /\ tick = 250
  /\ dyn.mode = STOP
  /\ dyn.currentSpeed > 0
  /\ dyn.currentSpeed < Sm(dyn)
  /\ dyn.current # dyn.target

\* ------------------------------------------------------------ C21

\* between d and d2, an update of elapsed e apart, currentSpeed has moved
\* toward the target speed of the mode the update left, by at most the ramp
\* of e, without crossing it
Ramped(d, d2, e) ==
  LET ts == targetSpeed(d2)
      ramp == PerMs(Sm(d) * 2, e)
  IN /\ MathAbs(d2.currentSpeed - d.currentSpeed) <= ramp
     /\ d.currentSpeed <= ts => (d.currentSpeed <= d2.currentSpeed /\ d2.currentSpeed <= ts)
     /\ d.currentSpeed >= ts => (ts <= d2.currentSpeed /\ d2.currentSpeed <= d.currentSpeed)
     /\ (d.currentSpeed # ts /\ ramp > 0) => d2.currentSpeed # d.currentSpeed

\* C21 (Speed ramp): in each update currentSpeed moves toward the target speed
\* (0 in STOP mode after the window test, else speed * speedMult) by at most
\* 2 * speed * speedMult * elapsed / 1000, never crosses it, and stays when it
\* equals it.
C21_SpeedRamp ==
  [][ AnyUpdate => \A e \in Elapsed : Update(e) => Ramped(dyn, dyn', e) ]_vars

\* part of the way up the ramp after a quarter of a second
C21_Witness ==
  /\ tick = 250
  /\ dyn.mode = POSITION
  /\ dyn.speedMult = 2
  /\ dyn.currentSpeed > 0 /\ dyn.currentSpeed < Sm(dyn)

\* ------------------------------------------------------------ C24

\* C24 (Frame of update): an update leaves target, min, max, speed and
\* speedMult as they were, and changes the mode only from POSITION to STOP.
C24_UpdateFrame ==
  [][ AnyUpdate =>
        /\ dyn'.target = dyn.target
        /\ dyn'.min = dyn.min /\ dyn'.max = dyn.max
        /\ dyn'.speed = dyn.speed /\ dyn'.speedMult = dyn.speedMult
        /\ dyn'.mode # dyn.mode => (dyn.mode = POSITION /\ dyn'.mode = STOP) ]_vars

\* rolling against the upper bound: the mode and the infinite target are kept
C24_Witness ==
  /\ op.name = "roll" /\ tick # NoUpdate
  /\ dyn.mode = INFINITE /\ dyn.target = Infinity
  /\ dyn.current = dyn.max
  /\ dyn.currentSpeed > 0

\* ------------------------------------------------------------ C25

\* C25 (Quiescence): in STOP mode with currentSpeed = 0 an update of any
\* elapsed returns false, calls no callback and leaves every field as it was,
\* whether or not current is the target; the axis leaves that state only by a
\* goto, step, roll or setCurrent.
C25_Quiescence ==
  /\ [] (Stopped(dyn) =>
           \A e \in Elapsed : update(dyn, e) = [d |-> dyn, changed |-> FALSE, calls |-> <<>>])
  /\ [][ (Stopped(dyn) /\ ~Stopped(dyn')) =>
           (AnyControl /\ op'.name \in {"goto", "step", "roll", "setCurrent"}) ]_vars

\* stopped away from the target with speed 0, then given a speed and updated
C25_Witness ==
  /\ op.name = "speed" /\ tick = 0
  /\ Stopped(dyn)
  /\ IsFinite(dyn.target) /\ dyn.current # dyn.target
  /\ dyn.fn

\* ------------------------------------------------------------ C22

\* the orders in which the dynamics can be visited
Orders == {<<"a", "b">>, <<"b", "a">>}

\* C22 (Axis independence in composite update): whatever the order of the
\* dynamics, the update of the MultiDynamic leaves each dynamic as one update
\* of that dynamic leaves it, also after another one has changed, and returns
\* the same value and passes the same snapshot.
C22_AxisIndependence ==
  \A e \in MultiElapsed, keys \in Orders :
    \E r \in {MultiDynamic_update([multi EXCEPT !.keys = keys], e)},
       r0 \in {MultiDynamic_update(multi, e)} :
      /\ DOMAIN r.returned = Axes
      /\ \A n \in Axes : \E u \in {update(multi.dynamics[n], e)} :
            r.m.dynamics[n] = u.d /\ r.returned[n] = u.changed
      /\ r.hasUpdates = r0.hasUpdates
      /\ r.calls = r0.calls

\* both dynamics moved in one update, one rolling and one going to a position
C22_Witness ==
  /\ mop.name = "update"
  /\ mres.returned["a"] /\ mres.returned["b"]
  /\ multi.dynamics["a"].mode = POSITION
  /\ multi.dynamics["b"].mode = INFINITE
  /\ mres.ret = 1

\* ------------------------------------------------------------ C23

\* C23 (Snapshot freshness under re-entrancy): the snapshot passed to the fn of
\* the MultiDynamic holds, for every dynamic, its current value at that call,
\* also when the fn of a dynamic has called setCurrent on a dynamic during the
\* same update.
C23_SnapshotFresh ==
  (mop.name = "update" /\ mres.calls # <<>>) =>
     \A n \in Axes : mres.calls[1][n] = multi.dynamics[n].current

====
